---- MODULE Spec2Model ----
(***************************************************************************)
(* Model of the smart-textbook-scanner action layer                        *)
(* (src/src/actions/index.ts) over the four tables of src/db/tables.ts.    *)
(*                                                                         *)
(* A table is a set of rows (records).  An optional input field or a       *)
(* nullable column is a set with at most one element: {} is                *)
(* undefined / NULL, {v} is the value v.                                   *)
(***************************************************************************)
EXTENDS Integers, FiniteSets, TLC

\* ------------------------------------------------------------------ bounds
MaxDocs == 2
MaxRows == 2
MaxTime == 1
MaxCalls == 2

\* ------------------------------------------------------------------ values
Users == {"u1", "u2"}
Anonymous == "anonymous"

Opt(S) == {{}} \cup {{v} : v \in S}
None == {}
Some(v) == {v}
Get(o) == CHOOSE v \in o : TRUE

\* JavaScript truthiness of an optional number: undefined, null and 0 are falsy.
Truthy(o) == o # {} /\ o # {0}

\* a ?? b
Coalesce(o, d) == IF o = {} THEN d ELSE Get(o)

Titles == {"A", "B"}
Descriptions == {"d"}
Contents == {"c"}

\* ------------------------------------------------------------------- state
VARIABLES
    docs,            \* TextbookDocuments rows
    pages,           \* TextbookPages rows
    highlights,      \* TextbookHighlights rows
    jobs,            \* ScanJobs rows
    nextPageId,      \* autoIncrement counter of TextbookPages
    nextHighlightId, \* autoIncrement counter of TextbookHighlights
    now,             \* the wall clock read by new Date()
    fkEnforced,      \* whether the store enforces the declared references
    calls,           \* savePage handlers suspended between two gateway calls
    reply            \* the response in flight: the action that returned it, its caller, input, result

vars == <<docs, pages, highlights, jobs, nextPageId, nextHighlightId, now,
          fkEnforced, calls, reply>>

tables == <<docs, pages, highlights, jobs, nextPageId, nextHighlightId>>

\* --------------------------------------------------------------- responses
Ok(ds, ps, hs, js) ==
    [code |-> "OK", message |-> "", documents |-> ds, pages |-> ps,
     highlights |-> hs, jobs |-> js]

Fail(code, message) ==
    [code |-> code, message |-> message, documents |-> {}, pages |-> {},
     highlights |-> {}, jobs |-> {}]

Unauthorized == Fail("UNAUTHORIZED", "You must be signed in to perform this action.")
DocumentNotFound == Fail("NOT_FOUND", "Document not found.")
PageNotFound == Fail("NOT_FOUND", "Page not found.")
HighlightNotFound == Fail("NOT_FOUND", "Highlight not found.")
StoreError == Fail("INTERNAL_SERVER_ERROR", "FOREIGN KEY constraint failed")

Done(op, s, in, resp) == [op |-> op, user |-> s, input |-> in, resp |-> resp]

\* no response in flight: the caller has taken the last one
NoReply == Done("none", Anonymous, <<>>, Ok({}, {}, {}, {}))

\* a caller issues its next request once the response is taken
Idle == reply = NoReply

\* ------------------------------------------------------------------ queries
\* where(eq(TextbookDocuments.ownerId, user.id))
DocumentsOwnedBy_AnyOwner(u) == docs

DocumentsOwnedBy(u) == {d \in docs : d.ownerId = u}

\* where(and(eq(TextbookDocuments.id, id), eq(TextbookDocuments.ownerId, user.id))).limit(1)
OwnedDocument_AnyOwner(u, id) == {d \in docs : d.id = id}

OwnedDocument(u, id) == {d \in DocumentsOwnedBy(u) : d.id = id}

\* autoIncrement primary key of a table whose rows are never deleted
NextDocId == Cardinality(docs) + 1
NextJobId == Cardinality(jobs) + 1

\* the rows inserted so far into the three tables below TextbookDocuments
RowsInserted == (nextPageId - 1) + (nextHighlightId - 1) + Cardinality(jobs)

\* ---------------------------------------------------------------- inputs
\* The inputs are those validation accepts.  Of the columns of a table the
\* model carries the keys, the owner, and one or two of the value columns
\* (title and description of a document, pageNumber of a page, content of a
\* highlight, status of a job); the other optional columns are handled by the
\* code exactly as description is.
DocIdInputs == 0..MaxDocs
PageIdInputs == 0..MaxRows
HighlightIdInputs == 0..MaxRows

CreateDocumentInputs == [title : Titles, description : Opt(Descriptions)]
PlainDocumentInputs == [title : {"A"}, description : {None}]

UpdateDocumentInputsFor(Ids) ==
    [id : Ids, title : Opt(Titles), description : Opt(Descriptions)]
UpdateDocumentInputs == UpdateDocumentInputsFor(DocIdInputs)
RetitleInputs == [id : DocIdInputs, title : Opt({"A"}), description : {None}]

SavePageInputsFor(DocIds) ==
    [id : Opt(PageIdInputs), documentId : DocIds, pageNumber : Opt({2})]
SavePageInputs == SavePageInputsFor(DocIdInputs)
PlainPageInputs ==
    [id : Opt(PageIdInputs), documentId : DocIdInputs, pageNumber : {None}]
NewPageInputs == [id : {None}, documentId : DocIdInputs, pageNumber : {None}]

DeletePageInputsFor(DocIds) == [id : PageIdInputs, documentId : DocIds]
DeletePageInputs == DeletePageInputsFor(DocIdInputs)

SaveHighlightInputsFor(DocIds) ==
    [id : Opt(HighlightIdInputs), documentId : DocIds,
     pageId : Opt(PageIdInputs), content : Contents]
SaveHighlightInputs == SaveHighlightInputsFor(DocIdInputs)
UnpagedHighlightInputs ==
    [id : {None}, documentId : DocIdInputs, pageId : {None}, content : Contents]
NewHighlightInputs ==
    [id : {None}, documentId : DocIdInputs, pageId : Opt(PageIdInputs),
     content : Contents]

DeleteHighlightInputsFor(DocIds) == [id : HighlightIdInputs, documentId : DocIds]
DeleteHighlightInputs == DeleteHighlightInputsFor(DocIdInputs)

CreateScanJobInputsFor(DocIds) ==
    [documentId : DocIds, pageId : Opt(PageIdInputs), status : Opt({"completed"})]
CreateScanJobInputs == CreateScanJobInputsFor(Opt(DocIdInputs))
DocumentJobInputs ==
    [documentId : Opt(DocIdInputs), pageId : {None}, status : {None}]

ListScanJobsInputs ==
    [documentId : Opt(DocIdInputs), pageId : Opt(PageIdInputs),
     status : Opt({"pending", "completed"})]
UnfilteredInputs == [documentId : {None}, pageId : {None}, status : {None}]

\* ------------------------------------------------------------ requireUser
\* A request without a session user: every handler throws UNAUTHORIZED
\* before it reads its input or the store.
Unauthenticated(op) ==
    /\ Idle
    /\ reply' = Done(op, Anonymous, <<>>, Unauthorized)
    /\ UNCHANGED <<tables, now, fkEnforced, calls>>

\* ------------------------------------------------------- document actions
\* createDocument: insert(TextbookDocuments).values({...}).returning()
NewDocument(u, in) ==
    [id |-> NextDocId, ownerId |-> u, title |-> in.title,
     description |-> in.description, createdAt |-> now, updatedAt |-> now]

CreateDocument(Inputs) ==
    \E u \in Users, in \in Inputs :
        /\ Idle
        /\ NextDocId <= MaxDocs
        /\ docs' = docs \cup {NewDocument(u, in)}
        /\ reply' = Done("createDocument", u, in, Ok({NewDocument(u, in)}, {}, {}, {}))
        /\ UNCHANGED <<pages, highlights, jobs, nextPageId, nextHighlightId,
                       now, fkEnforced, calls>>

\* updateData: the entries of rest whose value is not undefined
UpdateData(in) == {k \in {"title", "description"} : in[k] # None}

\* update(TextbookDocuments).set({...updateData, updatedAt: new Date()})
PatchDocument_Replace(d, in) ==
    [d EXCEPT
        !.title = IF in.title # None THEN Get(in.title) ELSE @,
        !.description = in.description,
        !.updatedAt = now]

PatchDocument(d, in) ==
    [d EXCEPT
        !.title = IF "title" \in UpdateData(in) THEN Get(in.title) ELSE @,
        !.description = IF "description" \in UpdateData(in) THEN in.description ELSE @,
        !.updatedAt = now]

\* updateDocument, as the pair of the response and the table it leaves
UpdateDocumentOutcome(u, in) ==
    LET existing == OwnedDocument(u, in.id) IN
    IF existing = {}
    THEN [resp |-> DocumentNotFound, docs |-> docs]
    ELSE IF UpdateData(in) = {}
    THEN [resp |-> Ok(existing, {}, {}, {}), docs |-> docs]
    ELSE LET document == PatchDocument(Get(existing), in) IN
         [resp |-> Ok({document}, {}, {}, {}),
          docs |-> (docs \ existing) \cup {document}]

UpdateDocument(Inputs) ==
    \E u \in Users, in \in Inputs :
        /\ Idle
        /\ docs' = UpdateDocumentOutcome(u, in).docs
        /\ reply' = Done("updateDocument", u, in, UpdateDocumentOutcome(u, in).resp)
        /\ UNCHANGED <<pages, highlights, jobs, nextPageId, nextHighlightId,
                       now, fkEnforced, calls>>

\* listDocuments
ListDocumentsResp_All(u) == Ok(docs, {}, {}, {})

ListDocumentsResp(u) == Ok(DocumentsOwnedBy(u), {}, {}, {})

ListDocuments ==
    \E u \in Users :
        /\ Idle
        /\ reply' = Done("listDocuments", u, <<>>, ListDocumentsResp(u))
        /\ UNCHANGED <<tables, now, fkEnforced, calls>>

\* getDocumentWithPages
GetDocumentWithPagesResp(u, in) ==
    LET document == OwnedDocument(u, in.id) IN
    IF document = {}
    THEN DocumentNotFound
    ELSE Ok(document, {p \in pages : p.documentId = in.id}, {}, {})

GetDocumentWithPages ==
    \E u \in Users, in \in [id : DocIdInputs] :
        /\ Idle
        /\ reply' = Done("getDocumentWithPages", u, in, GetDocumentWithPagesResp(u, in))
        /\ UNCHANGED <<tables, now, fkEnforced, calls>>

\* new Date() advances between requests
Tick ==
    /\ Idle
    /\ now < MaxTime
    /\ now' = now + 1
    /\ UNCHANGED <<tables, fkEnforced, calls, reply>>

\* ------------------------------------------------------------ page actions
\* select().from(TextbookPages).where(eq(TextbookPages.id, id)).limit(1)
PageById(id) == {p \in pages : p.id = id}

\* where(and(eq(TextbookPages.id, id), eq(TextbookPages.documentId, documentId)))
PageOfDocument(id, documentId) ==
    {p \in pages : p.id = id /\ p.documentId = documentId}

\* baseValues of savePage
PageValues(in) ==
    [documentId |-> in.documentId, pageNumber |-> Coalesce(in.pageNumber, 1)]

\* if (input.id): the update branch is taken for a truthy id only
SavePageUpdates(in) == Truthy(in.id)

\* update(TextbookPages).set(baseValues).where(eq(TextbookPages.id, id)).returning()
UpdatedPages(id, in) ==
    {[p EXCEPT !.documentId = PageValues(in).documentId,
               !.pageNumber = PageValues(in).pageNumber] : p \in PageById(id)}

\* insert(TextbookPages).values(baseValues).returning()
NewPage(in) ==
    [id |-> nextPageId, documentId |-> PageValues(in).documentId,
     pageNumber |-> PageValues(in).pageNumber]

\* savePage run without interruption: the response, the table, the counter
SavePageOutcome(u, in) ==
    LET same == [pages |-> pages, nextPageId |-> nextPageId] IN
    IF OwnedDocument(u, in.documentId) = {}
    THEN [resp |-> DocumentNotFound] @@ same
    ELSE IF SavePageUpdates(in)
    THEN LET existing == PageById(Get(in.id)) IN
         IF existing = {} \/ Get(existing).documentId # in.documentId
         THEN [resp |-> PageNotFound] @@ same
         ELSE [resp |-> Ok({}, UpdatedPages(Get(in.id), in), {}, {}),
               pages |-> (pages \ existing) \cup UpdatedPages(Get(in.id), in),
               nextPageId |-> nextPageId]
    ELSE [resp |-> Ok({}, {NewPage(in)}, {}, {}),
          pages |-> pages \cup {NewPage(in)},
          nextPageId |-> nextPageId + 1]

SavePage(Inputs) ==
    \E u \in Users, in \in Inputs :
        /\ Idle
        /\ SavePageOutcome(u, in).nextPageId > nextPageId => RowsInserted < MaxRows
        /\ pages' = SavePageOutcome(u, in).pages
        /\ nextPageId' = SavePageOutcome(u, in).nextPageId
        /\ reply' = Done("savePage", u, in, SavePageOutcome(u, in).resp)
        /\ UNCHANGED <<docs, highlights, jobs, nextHighlightId, now,
                       fkEnforced, calls>>

\* a row of TextbookHighlights or ScanJobs whose pageId references the page
PageReferenced(id) ==
    \/ \E h \in highlights : h.pageId = Some(id)
    \/ \E j \in jobs : j.pageId = Some(id)

\* delete(TextbookPages).where(...).returning(): the rows it removes; a store
\* that enforces the declared references rejects the statement instead
DeletedPages_AnyDocument(id, documentId) == PageById(id)

DeletedPages(id, documentId) == PageOfDocument(id, documentId)

\* deletePage: the response and the table it leaves
DeletePageOutcome(u, in) ==
    LET deleted == DeletedPages(in.id, in.documentId) IN
    IF OwnedDocument(u, in.documentId) = {}
    THEN [resp |-> DocumentNotFound, pages |-> pages]
    ELSE IF deleted = {}
    THEN [resp |-> PageNotFound, pages |-> pages]
    ELSE IF fkEnforced /\ PageReferenced(in.id)
    THEN [resp |-> StoreError, pages |-> pages]
    ELSE [resp |-> Ok({}, deleted, {}, {}), pages |-> pages \ deleted]

DeletePage ==
    \E u \in Users, in \in DeletePageInputs :
        /\ Idle
        /\ pages' = DeletePageOutcome(u, in).pages
        /\ reply' = Done("deletePage", u, in, DeletePageOutcome(u, in).resp)
        /\ UNCHANGED <<docs, highlights, jobs, nextPageId, nextHighlightId, now,
                       fkEnforced, calls>>

\* ------------------------------------------------------- highlight actions
HighlightById(id) == {h \in highlights : h.id = id}

\* if (input.pageId): the page lookup of saveHighlight, skipped for a falsy pageId
HighlightPageMissing(in) ==
    Truthy(in.pageId) /\ PageOfDocument(Get(in.pageId), in.documentId) = {}

\* the declared reference TextbookHighlights.pageId -> TextbookPages.id,
\* which NULL (an undefined value) always satisfies
PageReferenceBroken(pageId) ==
    fkEnforced /\ pageId # None /\ PageById(Get(pageId)) = {}

\* update(TextbookHighlights).set(baseValues): the query builder leaves a
\* column whose value is undefined out of the SET clause
UpdatedHighlight(h, in) ==
    [h EXCEPT !.documentId = in.documentId,
              !.pageId = IF in.pageId = None THEN @ ELSE in.pageId,
              !.content = in.content]

\* insert(TextbookHighlights).values(baseValues)
NewHighlight(in) ==
    [id |-> nextHighlightId, documentId |-> in.documentId, pageId |-> in.pageId,
     content |-> in.content]

SaveHighlightOutcome(u, in) ==
    LET same == [highlights |-> highlights, nextHighlightId |-> nextHighlightId] IN
    IF OwnedDocument(u, in.documentId) = {}
    THEN [resp |-> DocumentNotFound] @@ same
    ELSE IF HighlightPageMissing(in)
    THEN [resp |-> PageNotFound] @@ same
    ELSE IF Truthy(in.id)
    THEN LET existing == HighlightById(Get(in.id)) IN
         IF existing = {} \/ Get(existing).documentId # in.documentId
         THEN [resp |-> HighlightNotFound] @@ same
         ELSE IF PageReferenceBroken(in.pageId)
         THEN [resp |-> StoreError] @@ same
         ELSE LET highlight == UpdatedHighlight(Get(existing), in) IN
              [resp |-> Ok({}, {}, {highlight}, {}),
               highlights |-> (highlights \ existing) \cup {highlight},
               nextHighlightId |-> nextHighlightId]
    ELSE IF PageReferenceBroken(in.pageId)
    THEN [resp |-> StoreError] @@ same
    ELSE [resp |-> Ok({}, {}, {NewHighlight(in)}, {}),
          highlights |-> highlights \cup {NewHighlight(in)},
          nextHighlightId |-> nextHighlightId + 1]

SaveHighlight(Inputs) ==
    \E u \in Users, in \in Inputs :
        /\ Idle
        /\ SaveHighlightOutcome(u, in).nextHighlightId > nextHighlightId
              => RowsInserted < MaxRows
        /\ highlights' = SaveHighlightOutcome(u, in).highlights
        /\ nextHighlightId' = SaveHighlightOutcome(u, in).nextHighlightId
        /\ reply' = Done("saveHighlight", u, in, SaveHighlightOutcome(u, in).resp)
        /\ UNCHANGED <<docs, pages, jobs, nextPageId, now, fkEnforced, calls>>

\* delete(TextbookHighlights).where(and(eq(id), eq(documentId))).returning()
DeletedHighlights(id, documentId) ==
    {h \in highlights : h.id = id /\ h.documentId = documentId}

DeleteHighlightOutcome(u, in) ==
    LET deleted == DeletedHighlights(in.id, in.documentId) IN
    IF OwnedDocument(u, in.documentId) = {}
    THEN [resp |-> DocumentNotFound, highlights |-> highlights]
    ELSE IF deleted = {}
    THEN [resp |-> HighlightNotFound, highlights |-> highlights]
    ELSE [resp |-> Ok({}, {}, deleted, {}), highlights |-> highlights \ deleted]

DeleteHighlight ==
    \E u \in Users, in \in DeleteHighlightInputs :
        /\ Idle
        /\ highlights' = DeleteHighlightOutcome(u, in).highlights
        /\ reply' = Done("deleteHighlight", u, in, DeleteHighlightOutcome(u, in).resp)
        /\ UNCHANGED <<docs, pages, jobs, nextPageId, nextHighlightId, now,
                       fkEnforced, calls>>

\* -------------------------------------------------------- scan job actions
\* the declared references ScanJobs.documentId -> TextbookDocuments.id and
\* ScanJobs.pageId -> TextbookPages.id
JobReferenceBroken(in) ==
    /\ fkEnforced
    /\ \/ in.documentId # None /\ ~\E d \in docs : d.id = Get(in.documentId)
       \/ in.pageId # None /\ PageById(Get(in.pageId)) = {}

\* insert(ScanJobs).values({...})
NewJob(u, in) ==
    [id |-> NextJobId, documentId |-> in.documentId, pageId |-> in.pageId,
     userId |-> u, status |-> Coalesce(in.status, "pending")]

CreateScanJobOutcome(u, in) ==
    IF Truthy(in.documentId) /\ OwnedDocument(u, Get(in.documentId)) = {}
    THEN [resp |-> DocumentNotFound, jobs |-> jobs]
    ELSE IF Truthy(in.pageId) /\ PageById(Get(in.pageId)) = {}
    THEN [resp |-> PageNotFound, jobs |-> jobs]
    ELSE IF JobReferenceBroken(in)
    THEN [resp |-> StoreError, jobs |-> jobs]
    ELSE [resp |-> Ok({}, {}, {}, {NewJob(u, in)}), jobs |-> jobs \cup {NewJob(u, in)}]

CreateScanJob(Inputs) ==
    \E u \in Users, in \in Inputs :
        /\ Idle
        /\ CreateScanJobOutcome(u, in).jobs # jobs => RowsInserted < MaxRows
        /\ jobs' = CreateScanJobOutcome(u, in).jobs
        /\ reply' = Done("createScanJob", u, in, CreateScanJobOutcome(u, in).resp)
        /\ UNCHANGED <<docs, pages, highlights, nextPageId, nextHighlightId,
                       now, fkEnforced, calls>>

\* allowedDocIds
AllowedDocIds(u) == {d.id : d \in DocumentsOwnedBy(u)}

\* where(eq(ScanJobs.userId, user.id))
JobsOfUser(u) == {j \in jobs : j.userId = u}

\* the predicate of jobs.filter
JobPasses(job, in, allowed) ==
    LET matchesDoc == IF Truthy(job.documentId)
                      THEN Get(job.documentId) \in allowed ELSE TRUE
        matchesPage == IF Truthy(in.pageId) THEN job.pageId = in.pageId ELSE TRUE
        matchesStatus == IF in.status # None THEN job.status = Get(in.status) ELSE TRUE
        matchesRequestedDoc == IF Truthy(in.documentId)
                               THEN job.documentId = in.documentId ELSE TRUE
    IN matchesDoc /\ matchesPage /\ matchesStatus /\ matchesRequestedDoc

ListScanJobsResp(u, in) ==
    Ok({}, {}, {}, {j \in JobsOfUser(u) : JobPasses(j, in, AllowedDocIds(u))})

ListScanJobs(Inputs) ==
    \E u \in Users, in \in Inputs :
        /\ Idle
        /\ reply' = Done("listScanJobs", u, in, ListScanJobsResp(u, in))
        /\ UNCHANGED <<tables, now, fkEnforced, calls>>

\* ------------------------------------------- handlers, gateway call by call
\* A handler awaits each gateway call; between two calls of one handler the
\* calls of other handlers run.  A record of calls is a handler in flight:
\* its action, caller and input, and the gateway call it makes next.
Call(op, u, in, pc) == [op |-> op, user |-> u, input |-> in, pc |-> pc]

\* the request arrives: the handler is about to select the owned document
Begin(op, Inputs) ==
    \E u \in Users, in \in Inputs :
        /\ Idle
        /\ Cardinality(calls) < MaxCalls
        /\ calls' = calls \cup {Call(op, u, in, "document")}
        /\ UNCHANGED <<tables, now, fkEnforced, reply>>

\* the handler returns or throws
Finish(c, resp) ==
    /\ calls' = calls \ {c}
    /\ reply' = Done(c.op, c.user, c.input, resp)

Goto(c, pc) ==
    /\ calls' = (calls \ {c}) \cup {[c EXCEPT !.pc = pc]}
    /\ UNCHANGED reply

\* savePage and deletePage: select().from(TextbookDocuments)...limit(1)
SelectDocument ==
    \E c \in calls :
        /\ Idle
        /\ c.pc = "document"
        /\ IF OwnedDocument(c.user, c.input.documentId) = {}
           THEN Finish(c, DocumentNotFound)
           ELSE Goto(c, IF c.op = "deletePage" THEN "delete"
                        ELSE IF SavePageUpdates(c.input) THEN "page" ELSE "insert")
        /\ UNCHANGED <<tables, now, fkEnforced>>

\* savePage: select().from(TextbookPages).where(eq(TextbookPages.id, input.id))
SelectPage ==
    \E c \in calls :
        /\ Idle
        /\ c.pc = "page"
        /\ LET existing == PageById(Get(c.input.id)) IN
           IF existing = {} \/ Get(existing).documentId # c.input.documentId
           THEN Finish(c, PageNotFound)
           ELSE Goto(c, "update")
        /\ UNCHANGED <<tables, now, fkEnforced>>

\* savePage: const [page] = update(TextbookPages)...returning(); return { page }
UpdatePage ==
    \E c \in calls :
        /\ Idle
        /\ c.pc = "update"
        /\ pages' = (pages \ PageById(Get(c.input.id)))
                        \cup UpdatedPages(Get(c.input.id), c.input)
        /\ Finish(c, Ok({}, UpdatedPages(Get(c.input.id), c.input), {}, {}))
        /\ UNCHANGED <<docs, highlights, jobs, nextPageId, nextHighlightId, now,
                       fkEnforced>>

\* savePage: insert(TextbookPages).values(baseValues).returning()
InsertPage ==
    \E c \in calls :
        /\ Idle
        /\ c.pc = "insert"
        /\ RowsInserted < MaxRows
        /\ pages' = pages \cup {NewPage(c.input)}
        /\ nextPageId' = nextPageId + 1
        /\ Finish(c, Ok({}, {NewPage(c.input)}, {}, {}))
        /\ UNCHANGED <<docs, highlights, jobs, nextHighlightId, now, fkEnforced>>

\* deletePage: delete(TextbookPages).where(...).returning()
DeletePageRow ==
    \E c \in calls :
        /\ Idle
        /\ c.pc = "delete"
        /\ LET deleted == DeletedPages(c.input.id, c.input.documentId) IN
           IF deleted = {}
           THEN Finish(c, PageNotFound) /\ UNCHANGED pages
           ELSE IF fkEnforced /\ PageReferenced(c.input.id)
           THEN Finish(c, StoreError) /\ UNCHANGED pages
           ELSE Finish(c, Ok({}, deleted, {}, {})) /\ pages' = pages \ deleted
        /\ UNCHANGED <<docs, highlights, jobs, nextPageId, nextHighlightId, now,
                       fkEnforced>>

\* the caller takes the response
Return ==
    /\ ~Idle
    /\ reply' = NoReply
    /\ UNCHANGED <<tables, now, fkEnforced, calls>>

\* ---------------------------------------------------------- specifications
Init ==
    /\ docs = {}
    /\ pages = {}
    /\ highlights = {}
    /\ jobs = {}
    /\ nextPageId = 1
    /\ nextHighlightId = 1
    /\ now = 0
    /\ fkEnforced \in BOOLEAN
    /\ calls = {}
    /\ reply = NoReply

\* a store that does not enforce the references: the one that accepts every
\* write the other accepts
InitUnenforced == Init /\ ~fkEnforced

\* every action, the value columns left at their defaults
Next ==
    \/ CreateDocument(PlainDocumentInputs)
    \/ UpdateDocument(RetitleInputs)
    \/ ListDocuments
    \/ GetDocumentWithPages
    \/ SavePage(NewPageInputs)
    \/ DeletePage
    \/ SaveHighlight(UnpagedHighlightInputs)
    \/ DeleteHighlight
    \/ CreateScanJob(DocumentJobInputs)
    \/ ListScanJobs(UnfilteredInputs)
    \/ Unauthenticated("listDocuments")
    \/ Return

Spec == InitUnenforced /\ [][Next]_vars

\* the document actions, with the clock
NextDocs ==
    \/ CreateDocument(CreateDocumentInputs)
    \/ UpdateDocument(UpdateDocumentInputs)
    \/ ListDocuments
    \/ GetDocumentWithPages
    \/ Tick
    \/ Unauthenticated("updateDocument")
    \/ Return

SpecDocs == InitUnenforced /\ [][NextDocs]_vars

\* the page and highlight actions
NextPages ==
    \/ CreateDocument(PlainDocumentInputs)
    \/ SavePage(SavePageInputs)
    \/ DeletePage
    \/ SaveHighlight(SaveHighlightInputs)
    \/ DeleteHighlight
    \/ Unauthenticated("savePage")
    \/ Return

SpecPages == Init /\ [][NextPages]_vars

\* inserting and deleting pages and highlights
NextDelete ==
    \/ CreateDocument(PlainDocumentInputs)
    \/ SavePage(NewPageInputs)
    \/ DeletePage
    \/ SaveHighlight(NewHighlightInputs)
    \/ DeleteHighlight
    \/ Return

SpecDelete == Init /\ [][NextDelete]_vars

\* the scan job actions
NextJobs ==
    \/ CreateDocument(PlainDocumentInputs)
    \/ UpdateDocument(RetitleInputs)
    \/ SavePage(NewPageInputs)
    \/ DeletePage
    \/ CreateScanJob(CreateScanJobInputs)
    \/ ListScanJobs(ListScanJobsInputs)
    \/ Unauthenticated("listScanJobs")
    \/ Return

SpecJobs == Init /\ [][NextJobs]_vars

\* savePage and deletePage running concurrently
NextRace ==
    \/ CreateDocument(PlainDocumentInputs)
    \/ Begin("savePage", PlainPageInputs)
    \/ Begin("deletePage", DeletePageInputs)
    \/ SelectDocument
    \/ SelectPage
    \/ UpdatePage
    \/ InsertPage
    \/ DeletePageRow
    \/ Return

SpecRace == Init /\ [][NextRace]_vars

\* ------------------------------------------------------------------ claims
Owner(id) == {d.ownerId : d \in {e \in docs : e.id = id}}

\* a document that exists and is owned by a user other than u
ForeignDocument(u, id) == \E d \in docs : d.id = id /\ d.ownerId # u

\* an id no row of the table has or had
FreshDocId == NextDocId
FreshPageId == nextPageId

Code(resp) == resp.code

\* C1: every action that takes a document id, called by u with the id of a
\* document owned by another user, fails with NOT_FOUND, with the very
\* response it gives for an id no document has, and leaves every table as
\* it is.
C1_ForeignDocumentIsNotFound ==
    Idle =>
    \A u \in Users, id \in DocIdInputs : ForeignDocument(u, id) =>
        /\ \A in \in UpdateDocumentInputsFor({id}) :
            /\ UpdateDocumentOutcome(u, in).resp = DocumentNotFound
            /\ UpdateDocumentOutcome(u, [in EXCEPT !.id = FreshDocId]).resp
                   = UpdateDocumentOutcome(u, in).resp
            /\ UpdateDocumentOutcome(u, in).docs = docs
        /\ GetDocumentWithPagesResp(u, [id |-> id]) = DocumentNotFound
        /\ GetDocumentWithPagesResp(u, [id |-> FreshDocId])
               = GetDocumentWithPagesResp(u, [id |-> id])
        /\ \A in \in SavePageInputsFor({id}) :
            /\ SavePageOutcome(u, in).resp = DocumentNotFound
            /\ SavePageOutcome(u, [in EXCEPT !.documentId = FreshDocId]).resp
                   = SavePageOutcome(u, in).resp
            /\ SavePageOutcome(u, in).pages = pages
            /\ SavePageOutcome(u, in).nextPageId = nextPageId
        /\ \A in \in DeletePageInputsFor({id}) :
            /\ DeletePageOutcome(u, in).resp = DocumentNotFound
            /\ DeletePageOutcome(u, [in EXCEPT !.documentId = FreshDocId]).resp
                   = DeletePageOutcome(u, in).resp
            /\ DeletePageOutcome(u, in).pages = pages
        /\ \A in \in SaveHighlightInputsFor({id}) :
            /\ SaveHighlightOutcome(u, in).resp = DocumentNotFound
            /\ SaveHighlightOutcome(u, [in EXCEPT !.documentId = FreshDocId]).resp
                   = SaveHighlightOutcome(u, in).resp
            /\ SaveHighlightOutcome(u, in).highlights = highlights
            /\ SaveHighlightOutcome(u, in).nextHighlightId = nextHighlightId
        /\ \A in \in DeleteHighlightInputsFor({id}) :
            /\ DeleteHighlightOutcome(u, in).resp = DocumentNotFound
            /\ DeleteHighlightOutcome(u, [in EXCEPT !.documentId = FreshDocId]).resp
                   = DeleteHighlightOutcome(u, in).resp
            /\ DeleteHighlightOutcome(u, in).highlights = highlights
        /\ \A in \in CreateScanJobInputsFor({Some(id)}) :
            /\ CreateScanJobOutcome(u, in).resp = DocumentNotFound
            /\ CreateScanJobOutcome(u, [in EXCEPT !.documentId = Some(FreshDocId)]).resp
                   = CreateScanJobOutcome(u, in).resp
            /\ CreateScanJobOutcome(u, in).jobs = jobs

\* the owner of one document has just called deletePage with the id of a
\* page that exists and the id of its document, which another user owns
C1_Witness ==
    /\ reply.op = "deletePage"
    /\ reply.resp = DocumentNotFound
    /\ ForeignDocument(reply.user, reply.input.documentId)
    /\ \E d \in docs : d.ownerId = reply.user
    /\ \E p \in pages : p.id = reply.input.id /\ p.documentId = reply.input.documentId

\* C2: whatever createDocument and updateDocument calls were made, no step
\* removes a document or changes its owner, a created document is owned by
\* its creator, and listDocuments called by u returns exactly the documents
\* whose ownerId is u.
C2_ListDocumentsIsOwnDocuments ==
    [][/\ \A d \in docs : \E e \in docs' : e.id = d.id /\ e.ownerId = d.ownerId
       /\ reply'.op = "createDocument" =>
              \E u \in Users, d \in docs' \ docs :
                  /\ u = reply'.user
                  /\ d.ownerId = u
                  /\ d \in (ListDocumentsResp(u).documents)'
       /\ \A u \in Users :
              (ListDocumentsResp(u).documents)' = {d \in docs' : d.ownerId = u}
      ]_vars

\* u lists its documents, one of them updated since it was created, while
\* another user owns a document too
C2_Witness ==
    /\ reply.op = "listDocuments"
    /\ \E d \in reply.resp.documents : d.updatedAt > d.createdAt
    /\ \E d \in docs : d.ownerId # reply.user
    /\ reply.resp.documents = {d \in docs : d.ownerId = reply.user}

\* C9: a successful updateDocument changes, in the caller's document alone,
\* exactly the fields present in the input and updatedAt; id, ownerId,
\* createdAt and the omitted fields keep their values; with no field but id
\* in the input nothing is written and the stored record is returned.
C9_UpdateDocumentFrame ==
    [][(reply'.op = "updateDocument" /\ reply'.resp.code = "OK") =>
        LET in == reply'.input
            old == CHOOSE d \in docs : d.id = in.id
            new == CHOOSE d \in docs' : d.id = in.id
            onlyId == in.title = None /\ in.description = None
        IN /\ \E d \in docs : d.id = in.id
           /\ old.ownerId = reply'.user
           /\ docs' \ {new} = docs \ {old}
           /\ new.id = old.id
           /\ new.ownerId = old.ownerId
           /\ new.createdAt = old.createdAt
           /\ new.title = IF in.title = None THEN old.title ELSE Get(in.title)
           /\ new.description = IF in.description = None THEN old.description
                                ELSE in.description
           /\ new.updatedAt = IF onlyId THEN old.updatedAt ELSE now
           /\ onlyId => docs' = docs
           /\ reply'.resp.documents = {new}
      ]_vars

\* a title alone was patched, later than the document was created, and the
\* description set before is still there
C9_Witness ==
    /\ reply.op = "updateDocument"
    /\ reply.resp.code = "OK"
    /\ reply.input.title # None
    /\ reply.input.description = None
    /\ \E d \in reply.resp.documents :
           /\ d.description # None
           /\ d.title = Get(reply.input.title)
           /\ d.updatedAt > d.createdAt
           /\ d \in docs

\* C3: whatever the filters (each present or absent, 0 included),
\* listScanJobs called by u returns no job whose documentId is the id of a
\* document owned by a user other than u.
C3_NoJobOfForeignDocument ==
    Idle =>
    \A u \in Users, in \in ListScanJobsInputs :
        \A j \in ListScanJobsResp(u, in).jobs :
            j.documentId = None \/ ~ForeignDocument(u, Get(j.documentId))

\* u lists its jobs and gets one on its own document, while another user
\* has a document and a job on it
C3_Witness ==
    /\ reply.op = "listScanJobs"
    /\ \E j \in reply.resp.jobs :
           j.documentId # None /\ Owner(Get(j.documentId)) = {reply.user}
    /\ \E j \in jobs :
           /\ j.userId # reply.user
           /\ j.documentId # None
           /\ ForeignDocument(reply.user, Get(j.documentId))
           /\ j \notin reply.resp.jobs

\* a page that exists under a document owned by a user other than u
ForeignPage(u, id) ==
    \E p \in pages : p.id = id /\ ForeignDocument(u, p.documentId)

\* C4: an action called by u with the id of a page of another user's
\* document gives the response it gives for the id of no page.
C4_ForeignPageIsLikeNoPage ==
    Idle =>
    \A u \in Users, id \in PageIdInputs : ForeignPage(u, id) =>
        /\ \A in \in SavePageInputs : in.id = Some(id) =>
               SavePageOutcome(u, in).resp
                   = SavePageOutcome(u, [in EXCEPT !.id = Some(FreshPageId)]).resp
        /\ \A in \in DeletePageInputs : in.id = id =>
               DeletePageOutcome(u, in).resp
                   = DeletePageOutcome(u, [in EXCEPT !.id = FreshPageId]).resp
        /\ \A in \in SaveHighlightInputs : in.pageId = Some(id) =>
               SaveHighlightOutcome(u, in).resp
                   = SaveHighlightOutcome(u, [in EXCEPT !.pageId = Some(FreshPageId)]).resp
        /\ \A in \in CreateScanJobInputs : in.pageId = Some(id) =>
               CreateScanJobOutcome(u, in).resp
                   = CreateScanJobOutcome(u, [in EXCEPT !.pageId = Some(FreshPageId)]).resp

\* the jobs the filters of listScanJobs are specified to let through
JobsSpecified(u, in) ==
    {j \in jobs :
        /\ j.userId = u
        /\ j.documentId = None \/ Owner(Get(j.documentId)) = {u}
        /\ in.pageId # None => j.pageId = in.pageId
        /\ in.status # None => j.status = Get(in.status)
        /\ in.documentId # None => j.documentId = in.documentId}

\* C7: listScanJobs returns exactly the caller's jobs whose document is
\* absent or the caller's and that equal every supplied filter; a job
\* created without a status is pending.
C7_ListScanJobsIsFilter ==
    /\ \A u \in Users, in \in ListScanJobsInputs :
           ListScanJobsResp(u, in).jobs = JobsSpecified(u, in)
    /\ (reply.op = "createScanJob" /\ reply.resp.code = "OK"
            /\ reply.input.status = None) =>
           \A j \in reply.resp.jobs :
               /\ j.status = "pending"
               /\ j \in ListScanJobsResp(reply.user,
                            [documentId |-> None, pageId |-> None,
                             status |-> Some("pending")]).jobs
               /\ j \notin ListScanJobsResp(reply.user,
                            [documentId |-> None, pageId |-> None,
                             status |-> Some("completed")]).jobs

C6_SavePageWithIdNeverInserts ==
    \A u \in Users, in \in SavePageInputs :
        (in.id # None /\ OwnedDocument(u, in.documentId) # {}) =>
            IF PageOfDocument(Get(in.id), in.documentId) # {}
            THEN Code(SavePageOutcome(u, in).resp) = "OK"
            ELSE /\ SavePageOutcome(u, in).resp = PageNotFound
                 /\ SavePageOutcome(u, in).pages = pages
                 /\ SavePageOutcome(u, in).nextPageId = nextPageId

\* C8: a successful deletePage (deleteHighlight) removes the one row that
\* has both the id and the documentId and no other page or highlight, and
\* the same call made again at once fails with NOT_FOUND and changes nothing.
C8_DeleteOnceThenNotFound ==
    [][/\ (reply'.op = "deletePage" /\ reply'.resp.code = "OK") =>
            \E u \in Users, in \in DeletePageInputs, p \in pages :
                /\ u = reply'.user /\ in = reply'.input
                /\ p.id = in.id /\ p.documentId = in.documentId
                /\ pages' = pages \ {p}
                /\ highlights' = highlights
                /\ reply'.resp.pages = {p}
                /\ (DeletePageOutcome(u, in).resp)' = PageNotFound
                /\ (DeletePageOutcome(u, in).pages)' = pages'
       /\ (reply'.op = "deleteHighlight" /\ reply'.resp.code = "OK") =>
            \E u \in Users, in \in DeleteHighlightInputs, h \in highlights :
                /\ u = reply'.user /\ in = reply'.input
                /\ h.id = in.id /\ h.documentId = in.documentId
                /\ highlights' = highlights \ {h}
                /\ pages' = pages
                /\ reply'.resp.highlights = {h}
                /\ (DeleteHighlightOutcome(u, in).resp)' = HighlightNotFound
                /\ (DeleteHighlightOutcome(u, in).highlights)' = highlights'
      ]_vars

\* a page was deleted and the call repeated would find nothing, while the
\* page of another document is still there
C8_Witness ==
    /\ reply.op = "deletePage"
    /\ reply.resp.code = "OK"
    /\ DeletePageOutcome(reply.user, reply.input).resp = PageNotFound
    /\ \E p \in pages : p.documentId # reply.input.documentId

\* C10: with the gateway calls of concurrent handlers interleaved, a savePage
\* with an id that completes without an error returns the page it updated,
\* and that page is in the store.
C10_SavePageReturnsStoredPage ==
    (reply.op = "savePage" /\ Truthy(reply.input.id) /\ reply.resp.code = "OK") =>
        /\ reply.resp.pages # {}
        /\ reply.resp.pages \subseteq pages

====
